---- MODULE Spec2Model ----
(***************************************************************************)
(* Model of translate_movie/core.py: the pipeline controller `main`, the   *)
(* stages it invokes (download_video, ensure_whisper, translate_subtitles, *)
(* update_ytdlp) and the subtitle file-state machine                        *)
(* (postprocess_subtitles and the block inlined at the end of main).        *)
(*                                                                          *)
(* A path or file name is a sequence of tokens; "/" and "." are the path    *)
(* separator and the extension separator, every other token stands for a   *)
(* run of ordinary characters.  The filesystem is a function from absolute  *)
(* paths to file records [c |-> content, t |-> modification time].          *)
(***************************************************************************)
EXTENDS Integers, Sequences, FiniteSets, TLC

\* ------------------------------------------------------------------ bounds
MaxRuns == 2          \* successive invocations of main on the same directory
MaxProgress == 1      \* progress files the translator writes in one run
MaxTime == 1          \* modification times range over 0..MaxTime

\* ------------------------------------------------------- string primitives
SEP == "/"
DOT == "."
None == <<"None">>    \* Python's None (never a path: it has no separator role)

Max(S) == CHOOSE x \in S : \A y \in S : y <= x

\* str.rfind(ch) + 1 : the position of the last occurrence, 0 when absent
rfind(s, ch) == Max({0} \cup {i \in 1..Len(s) : s[i] = ch})

startswith(s, pre) == Len(s) >= Len(pre) /\ SubSeq(s, 1, Len(pre)) = pre
endswith(s, suf) == Len(s) >= Len(suf) /\ SubSeq(s, Len(s) - Len(suf) + 1, Len(s)) = suf

\* str.rstrip(sep)
rstrip(s) == SubSeq(s, 1, Max({0} \cup {i \in 1..Len(s) : s[i] # SEP}))

\* os.path.dirname
dirname(p) ==
    LET head == SubSeq(p, 1, rfind(p, SEP))
    IN  IF head # <<>> /\ (\E k \in 1..Len(head) : head[k] # SEP) THEN rstrip(head) ELSE head

\* os.path.basename
basename(p) == SubSeq(p, rfind(p, SEP) + 1, Len(p))

\* os.path.splitext(p)[0] : the extension starts at the last dot, unless
\* only dots precede it in the file name
splitext0(p) ==
    LET sepIndex == rfind(p, SEP)
        dotIndex == rfind(p, DOT)
    IN  IF dotIndex > sepIndex /\ (\E k \in (sepIndex + 1)..(dotIndex - 1) : p[k] # DOT)
        THEN SubSeq(p, 1, dotIndex - 1)
        ELSE p

\* os.path.join(a, b)
join(a, b) ==
    IF b # <<>> /\ b[1] = SEP THEN b
    ELSE IF a = <<>> \/ a[Len(a)] = SEP THEN a \o b
    ELSE a \o <<SEP>> \o b

\* ------------------------------------------------------------- filesystem
CWD == <<SEP, "v">>                 \* the working directory of the process
DOWNLOAD_DIR == <<SEP, "dl">>       \* $HOME/Downloads

\* the absolute path a (possibly relative) path names
Abs(p) == IF p # <<>> /\ p[1] = SEP THEN p ELSE join(CWD, p)

File(c, t) == [c |-> c, t |-> t]

isfile(f, p) == p # <<>> /\ Abs(p) \in DOMAIN f

\* os.listdir(d): the empty path names no directory and raises
listdir_raises(d) == d = <<>>
listdir(f, d) == {basename(x) : x \in {y \in DOMAIN f : dirname(y) = Abs(d)}}

\* os.replace(src, dst): dst is created or silently overwritten
os_replace(f, src, dst) ==
    [x \in (DOMAIN f \ {Abs(src)}) \cup {Abs(dst)} |-> IF x = Abs(dst) THEN f[Abs(src)] ELSE f[x]]

\* shutil.copy2(src, dst): content and metadata are copied
copy2(f, src, dst) ==
    [x \in DOMAIN f \cup {Abs(dst)} |-> IF x = Abs(dst) THEN f[Abs(src)] ELSE f[x]]

\* os.remove(p)
os_remove(f, p) == [x \in DOMAIN f \ {Abs(p)} |-> f[x]]

\* a tool writes file p
write(f, p, c, t) == [x \in DOMAIN f \cup {Abs(p)} |-> IF x = Abs(p) THEN File(c, t) ELSE f[x]]

\* ------------------------------------------------- filesystem fault inputs
\* How an os.replace with copy-and-remove fallback goes:
\*   "ok"       os.replace succeeds
\*   "fallback" os.replace raises, copy2 and os.remove succeed
\*   "copyfail" os.replace raises, copy2 raises
\*   "rmfail"   os.replace raises, copy2 succeeds, os.remove raises
MoveOutcome == {"ok", "fallback", "copyfail", "rmfail"}

\* one choice of outcomes for every filesystem operation of a post-processing
\* pass: m1, m2 the two moves, ls whether os.listdir raises, rmf the names
\* whose os.remove raises
FaultChoices(names) ==
    [m1 : MoveOutcome, m2 : MoveOutcome, ls : BOOLEAN, rmf : SUBSET names]
NoFault == [m1 |-> "ok", m2 |-> "ok", ls |-> FALSE, rmf |-> {}]

\* the try: os.replace / except: copy2 + os.remove block; the result carries
\* the filesystem and the operations performed
move(st, src, dst, how) ==
    IF how = "ok"
        THEN [fs |-> os_replace(st.fs, src, dst), ops |-> Append(st.ops, <<"replace", src, dst>>)]
    ELSE IF how = "copyfail"
        THEN st
    ELSE IF how = "rmfail"
        THEN [fs |-> copy2(st.fs, src, dst), ops |-> Append(st.ops, <<"copy", src, dst>>)]
    ELSE [fs |-> os_remove(copy2(st.fs, src, dst), src),
          ops |-> st.ops \o << <<"copy", src, dst>>, <<"remove", src>> >>]

\* ---------------------------------------------------------- configuration
\* the process environment maps every variable name to its value, or to
\* Unset when the variable is absent
Unset == <<"unset">>
environ_get(e, key, default) == IF e[key] # Unset THEN e[key] ELSE default

\* text values: a token "$HOME" is a reference to the variable HOME, a
\* leading token "~" is the user's home directory
HOME_REF == "$HOME"
TILDE == "~"
PwdHome == <<SEP, "root">>          \* the home directory of the password database

\* os.path.expandvars: a reference to a set variable is replaced by its value,
\* a reference to an unset variable stays as it is
RECURSIVE expandvars(_, _)
expandvars(s, e) ==
    IF s = <<>> THEN <<>>
    ELSE (IF Head(s) = HOME_REF /\ e["HOME"] # Unset THEN e["HOME"] ELSE <<Head(s)>>)
         \o expandvars(Tail(s), e)

\* os.path.expanduser: a leading "~" becomes $HOME, or the password
\* database's home directory when HOME is unset
expanduser(s, e) ==
    IF s # <<>> /\ s[1] = TILDE /\ (Len(s) = 1 \/ s[2] = SEP)
    THEN LET userhome == IF e["HOME"] # Unset THEN e["HOME"] ELSE PwdHome
             r == rstrip(userhome) \o Tail(s)
         IN  IF r = <<>> THEN <<SEP>> ELSE r
    ELSE s

\* get_config with TRANSLATOR_PATH read verbatim, like the other keys
get_config_verbatim(e) ==
    [WHISPER_MODEL |-> environ_get(e, "WHISPER_MODEL", <<"large">>),
     WHISPER_LANGUAGE |-> environ_get(e, "WHISPER_LANGUAGE", <<"en">>),
     OPENAI_ENDPOINT |-> environ_get(e, "OPENAI_ENDPOINT", <<"http://localhost:20000/v1">>),
     OPENAI_API_KEY |-> environ_get(e, "OPENAI_API_KEY", <<"lm-studio">>),
     OPENAI_MODEL |-> environ_get(e, "OPENAI_MODEL", <<"qwen3-30b-a3b-instruct-2507">>),
     TRANSLATOR_PATH |-> environ_get(e, "TRANSLATOR_PATH",
                            <<HOME_REF, SEP, "tools", SEP, "translateMovie", SEP,
                              "chatgpt-subtitle-translator">>),
     SOURCE_LANG |-> environ_get(e, "SOURCE_LANG", <<"en">>),
     TARGET_LANG |-> environ_get(e, "TARGET_LANG", <<"pl">>),
     YT_DLP_PATH |-> environ_get(e, "YT_DLP_PATH", <<"/usr/local/bin/yt-dlp">>),
     YT_DLP_OUTPUT_NAME |-> environ_get(e, "YT_DLP_OUTPUT_NAME", <<"ytDownloadedFile">>),
     TRANSLATION_BATCH_SIZES |-> environ_get(e, "TRANSLATION_BATCH_SIZES", <<"[5,10]">>)]

\* get_config with WHISPER_LANGUAGE falling back on SOURCE_LANG
get_config_coupled(e) ==
    [get_config_verbatim(e) EXCEPT
        !.TRANSLATOR_PATH = expanduser(expandvars(@, e), e),
        !.WHISPER_LANGUAGE = environ_get(e, "WHISPER_LANGUAGE", environ_get(e, "SOURCE_LANG", <<"en">>))]

get_config(e) ==
    [WHISPER_MODEL |-> environ_get(e, "WHISPER_MODEL", <<"large">>),
     WHISPER_LANGUAGE |-> environ_get(e, "WHISPER_LANGUAGE", <<"en">>),
     OPENAI_ENDPOINT |-> environ_get(e, "OPENAI_ENDPOINT", <<"http://localhost:20000/v1">>),
     OPENAI_API_KEY |-> environ_get(e, "OPENAI_API_KEY", <<"lm-studio">>),
     OPENAI_MODEL |-> environ_get(e, "OPENAI_MODEL", <<"qwen3-30b-a3b-instruct-2507">>),
     TRANSLATOR_PATH |-> expanduser(expandvars(
                            environ_get(e, "TRANSLATOR_PATH",
                                <<HOME_REF, SEP, "tools", SEP, "translateMovie", SEP,
                                  "chatgpt-subtitle-translator">>), e), e),
     SOURCE_LANG |-> environ_get(e, "SOURCE_LANG", <<"en">>),
     TARGET_LANG |-> environ_get(e, "TARGET_LANG", <<"pl">>),
     YT_DLP_PATH |-> environ_get(e, "YT_DLP_PATH", <<"/usr/local/bin/yt-dlp">>),
     YT_DLP_OUTPUT_NAME |-> environ_get(e, "YT_DLP_OUTPUT_NAME", <<"ytDownloadedFile">>),
     TRANSLATION_BATCH_SIZES |-> environ_get(e, "TRANSLATION_BATCH_SIZES", <<"[5,10]">>)]

\* the keys of the configuration
ConfigKeys ==
    {"WHISPER_MODEL", "WHISPER_LANGUAGE", "OPENAI_ENDPOINT", "OPENAI_API_KEY", "OPENAI_MODEL",
     "TRANSLATOR_PATH", "SOURCE_LANG", "TARGET_LANG", "YT_DLP_PATH", "YT_DLP_OUTPUT_NAME",
     "TRANSLATION_BATCH_SIZES"}

\* an environment with HOME set and no configuration variable
BaseEnviron == [k \in ConfigKeys \cup {"HOME"} |-> IF k = "HOME" THEN <<SEP, "home">> ELSE Unset]

\* ------------------------------------------------------- post-processing
\* f".progress_{target_lang}.csv"
progress_suffix(target_lang) == <<DOT, "progress", "_">> \o target_lang \o <<DOT, "csv">>

\* the purge loop matching the progress files of every language
purge_every_language(st, video_dir, target_lang, fl) ==
    IF listdir_raises(video_dir) \/ fl.ls THEN st
    ELSE LET hit == {n \in listdir(st.fs, video_dir) : endswith(n, <<DOT, "csv">>)}
             gone == hit \ fl.rmf
         IN  [fs |-> [x \in DOMAIN st.fs \ {Abs(join(video_dir, n)) : n \in gone} |-> st.fs[x]],
              ops |-> IF gone = {} THEN st.ops ELSE Append(st.ops, <<"purge", gone>>)]

\* the purge loop: every listed name with the suffix is removed unless its
\* os.remove raises; a raising os.listdir ends the step with nothing removed
purge(st, video_dir, target_lang, fl) ==
    IF listdir_raises(video_dir) \/ fl.ls THEN st
    ELSE LET hit == {n \in listdir(st.fs, video_dir) : endswith(n, progress_suffix(target_lang))}
             gone == hit \ fl.rmf
         IN  [fs |-> [x \in DOMAIN st.fs \ {Abs(join(video_dir, n)) : n \in gone} |-> st.fs[x]],
              ops |-> IF gone = {} THEN st.ops ELSE Append(st.ops, <<"purge", gone>>)]

\* postprocess_subtitles without its purge of the progress files
postprocess_subtitles_unpurged(f, video_dir, video_name, target_lang, fl) ==
    LET srt_en == join(video_dir, video_name \o <<DOT, "srt">>)
        srt_translated == join(video_dir, video_name \o <<"_">> \o target_lang \o <<DOT, "srt">>)
        srt_en_final == join(video_dir, video_name \o <<"_", "en", DOT, "srt">>)
        srt_canonical == join(video_dir, video_name \o <<DOT, "srt">>)
        s0 == [fs |-> f, ops |-> <<>>]
        s1 == IF isfile(s0.fs, srt_en) THEN move(s0, srt_en, srt_en_final, fl.m1) ELSE s0
        s2 == IF isfile(s1.fs, srt_translated) THEN move(s1, srt_translated, srt_canonical, fl.m2) ELSE s1
    IN  [fs |-> s2.fs, ops |-> s2.ops, ret |-> <<srt_en_final, srt_canonical>>]

postprocess_subtitles(f, video_dir, video_name, target_lang, fl) ==
    LET srt_en == join(video_dir, video_name \o <<DOT, "srt">>)
        srt_translated == join(video_dir, video_name \o <<"_">> \o target_lang \o <<DOT, "srt">>)
        srt_en_final == join(video_dir, video_name \o <<"_", "en", DOT, "srt">>)
        srt_canonical == join(video_dir, video_name \o <<DOT, "srt">>)
        s0 == [fs |-> f, ops |-> <<>>]
        s1 == IF isfile(s0.fs, srt_en) THEN move(s0, srt_en, srt_en_final, fl.m1) ELSE s0
        s2 == IF isfile(s1.fs, srt_translated) THEN move(s1, srt_translated, srt_canonical, fl.m2) ELSE s1
        s3 == purge(s2, video_dir, target_lang, fl)
    IN  [fs |-> s3.fs, ops |-> s3.ops, ret |-> <<srt_en_final, srt_canonical>>]

\* the block reporting the staged path when the promotion could not be made
main_postprocess_staged(f, video_dir, video_name, TARGET_LANG, fl) ==
    LET srt_en == join(video_dir, video_name \o <<DOT, "srt">>)
        srt_translated == join(video_dir, video_name \o <<"_">> \o TARGET_LANG \o <<DOT, "srt">>)
        srt_en_final == join(video_dir, video_name \o <<"_", "en", DOT, "srt">>)
        srt_canonical == join(video_dir, video_name \o <<DOT, "srt">>)
        s0 == [fs |-> f, ops |-> <<>>]
        s1 == IF isfile(s0.fs, srt_en) THEN move(s0, srt_en, srt_en_final, fl.m1) ELSE s0
        s2 == IF isfile(s1.fs, srt_translated) THEN move(s1, srt_translated, srt_canonical, fl.m2) ELSE s1
        s3 == purge(s2, video_dir, TARGET_LANG, fl)
    IN  [fs |-> s3.fs, ops |-> s3.ops,
         ret |-> <<srt_en_final, IF fl.m2 = "copyfail" THEN srt_translated ELSE srt_canonical>>]

\* the post-processing block inlined at the end of main
main_postprocess(f, video_dir, video_name, TARGET_LANG, fl) ==
    LET srt_en == join(video_dir, video_name \o <<DOT, "srt">>)
        srt_translated == join(video_dir, video_name \o <<"_">> \o TARGET_LANG \o <<DOT, "srt">>)
        srt_en_final == join(video_dir, video_name \o <<"_", "en", DOT, "srt">>)
        srt_canonical == join(video_dir, video_name \o <<DOT, "srt">>)
        s0 == [fs |-> f, ops |-> <<>>]
        s1 == IF isfile(s0.fs, srt_en) THEN move(s0, srt_en, srt_en_final, fl.m1) ELSE s0
        s2 == IF isfile(s1.fs, srt_translated) THEN move(s1, srt_translated, srt_canonical, fl.m2) ELSE s1
        s3 == purge(s2, video_dir, TARGET_LANG, fl)
    IN  [fs |-> s3.fs, ops |-> s3.ops, ret |-> <<srt_en_final, srt_canonical>>]

\* the block inlined at the end of main as far as a process killed inside
\* it gets: through its first k steps, every operation succeeding; of a
\* purge under way the names in kept are not removed yet
main_postprocess_upto(f, video_dir, video_name, TARGET_LANG, k, kept) ==
    LET srt_en == join(video_dir, video_name \o <<DOT, "srt">>)
        srt_translated == join(video_dir, video_name \o <<"_">> \o TARGET_LANG \o <<DOT, "srt">>)
        srt_en_final == join(video_dir, video_name \o <<"_", "en", DOT, "srt">>)
        srt_canonical == join(video_dir, video_name \o <<DOT, "srt">>)
        s0 == [fs |-> f, ops |-> <<>>]
        s1 == IF isfile(s0.fs, srt_en) THEN move(s0, srt_en, srt_en_final, "ok") ELSE s0
        s2 == IF isfile(s1.fs, srt_translated) THEN move(s1, srt_translated, srt_canonical, "ok") ELSE s1
        s3 == purge(s2, video_dir, TARGET_LANG, [NoFault EXCEPT !.rmf = kept])
    IN  IF k = 0 THEN s0 ELSE IF k = 1 THEN s1 ELSE IF k = 2 THEN s2 ELSE s3

\* the names with the progress suffix that a purge of video_dir would meet
ProgressHits(f, video_dir, target_lang) ==
    IF listdir_raises(video_dir) THEN {}
    ELSE {n \in listdir(f, video_dir) : endswith(n, progress_suffix(target_lang))}

\* ------------------------------------------------------------ the inputs
VIDEO_BARE == <<"movie", DOT, "mp4">>                  \* --file movie.mp4
VIDEO_ABS == CWD \o <<SEP>> \o VIDEO_BARE              \* --file /v/movie.mp4
URL == <<"url">>

\* argv as parse_args sees it.  no_argv: argv is None and sys.argv holds the
\* program name only.
Args(file, net, post, skip, update) ==
    [file |-> file, net |-> net, postprocess_only |-> post,
     skip_whisper |-> skip, update_ytdlp |-> update, no_argv |-> FALSE]
NoArgv == [Args(None, None, None, FALSE, FALSE) EXCEPT !.no_argv = TRUE]

\* the command lines considered (--file and --net are mutually exclusive in
\* parse_args)
ArgSet ==
    {NoArgv,
     Args(None, None, None, FALSE, FALSE),
     Args(None, None, None, TRUE, FALSE),
     Args(None, None, None, FALSE, TRUE),
     Args(None, None, VIDEO_BARE, FALSE, FALSE),
     Args(None, None, VIDEO_ABS, FALSE, FALSE),
     Args(VIDEO_ABS, None, VIDEO_ABS, FALSE, TRUE),
     Args(None, URL, VIDEO_ABS, TRUE, FALSE),
     Args(VIDEO_ABS, None, None, FALSE, TRUE),
     Args(None, URL, None, FALSE, TRUE)} \cup
    {Args(fn[1], fn[2], None, skip, FALSE) :
        fn \in {<<VIDEO_BARE, None>>, <<VIDEO_ABS, None>>, <<None, URL>>},
        skip \in BOOLEAN}

\* Python truthiness of an optional string argument
Truthy(x) == x # None /\ x # <<>>

\* the environments of the pipeline runs: TARGET_LANG unset or set to "en",
\* every other configuration variable unset
Environs == {[BaseEnviron EXCEPT !["TARGET_LANG"] = l] : l \in {Unset, <<"en">>}}

\* the k-th progress checkpoint the translator keeps for an input file
ProgressName(srt, lang, k) == srt \o <<DOT, ToString(k)>> \o progress_suffix(lang)

\* files that may be lying around before the first run
InitialFiles ==
    [x \in {VIDEO_ABS,
            CWD \o <<SEP, "movie", DOT, "srt">>,
            CWD \o <<SEP, "movie", "_", "pl", DOT, "srt">>,
            CWD \o <<SEP, "movie", "_", "en", DOT, "srt">>,
            CWD \o <<SEP>> \o ProgressName(<<"movie", DOT, "srt">>, <<"pl">>, 1),
            DOWNLOAD_DIR \o <<SEP, "ytDownloadedFile", DOT, "mp4">>}
     |-> IF x = VIDEO_ABS THEN File("video", MaxTime)
         ELSE IF x = CWD \o <<SEP, "movie", DOT, "srt">> THEN File("src", MaxTime)
         ELSE IF x = CWD \o <<SEP, "movie", "_", "pl", DOT, "srt">> THEN File("tr", MaxTime)
         ELSE IF x = CWD \o <<SEP, "movie", "_", "en", DOT, "srt">> THEN File("old", MaxTime)
         ELSE IF x = DOWNLOAD_DIR \o <<SEP, "ytDownloadedFile", DOT, "mp4">> THEN File("stale", MaxTime)
         ELSE File("csv", MaxTime)]

Restrict(f, S) == [x \in S |-> f[x]]

\* exit statuses
NoRc == -1            \* main has not returned
Raised == 1           \* an exception left main: the interpreter exits with 1

\* ------------------------------------------------------------------ state
VARIABLES
    fs,               \* the filesystem
    environ,          \* the process environment
    cfg,              \* the configuration main resolved at its start
    pc,               \* where main stands: idle, update, download, whisper, translate, done
    args,             \* the parsed arguments of the current run
    video_file,       \* main's video_file once acquisition has settled it
    rc,               \* main's return code
    ret,              \* the path pair post-processing reported
    calls,            \* external tools invoked in the current run, with outcome
    ops,              \* renames, copies and deletions of the current run
    fs0,              \* the filesystem when the current run started
    fsPre,            \* the filesystem when post-processing started
    posted,           \* post-processing ran in the current run
    faulted,          \* a filesystem operation was made to fail in the current run
    flt,              \* the outcomes post-processing's operations had in the current run
    runs,             \* the number of the current run
    killed            \* an earlier run was killed after transcription

vars == <<fs, environ, cfg, pc, args, video_file, rc, ret, calls, ops, fs0, fsPre,
          posted, faulted, flt, runs, killed>>

Call(tool, out, wrote) == [tool |-> tool, out |-> out, wrote |-> wrote]

Init ==
    /\ fs \in {Restrict(InitialFiles, S) : S \in SUBSET DOMAIN InitialFiles}
    /\ environ \in Environs
    /\ cfg = [k \in ConfigKeys |-> Unset]
    /\ pc = "idle"
    /\ args = NoArgv
    /\ video_file = None
    /\ rc = NoRc
    /\ ret = None
    /\ calls = <<>>
    /\ ops = <<>>
    /\ fs0 = fs
    /\ fsPre = fs
    /\ posted = FALSE
    /\ faulted = FALSE
    /\ flt = NoFault
    /\ runs = 1
    /\ killed = FALSE

\* ------------------------------------------------------------------ main
\* In every action F tells whether filesystem operations may be made to
\* fail (an unreadable directory, a read-only file, a full disk).
Flaky(F) == IF F THEN BOOLEAN ELSE {FALSE}
FaultsOf(F, names) == IF F THEN FaultChoices(names) ELSE {NoFault}

TARGET_LANG == get_config(environ).TARGET_LANG
YT_DLP_OUTPUT_NAME == get_config(environ).YT_DLP_OUTPUT_NAME

Return(code) == pc' = "done" /\ rc' = code

\* a stage ended with code r: main returns it, or goes on to the next stage
Goto(r, next) == IF r = NoRc THEN pc' = next /\ rc' = NoRc ELSE Return(r)

\* Dispatch without the "one of --file or --net is required" check
Dispatch_no_usage(a, f) ==
    IF a.no_argv THEN "help"
    ELSE IF Truthy(a.postprocess_only)
        THEN IF ~isfile(f, a.postprocess_only) THEN "post_missing" ELSE "postprocess"
    ELSE IF a.update_ytdlp THEN "update"
    ELSE IF Truthy(a.net) THEN "net"
    ELSE IF ~isfile(f, a.file) THEN "file_missing"
    ELSE "file"

\* the branch main takes on arguments a over filesystem f, before any tool
\* is invoked
Dispatch(a, f) ==
    IF a.no_argv THEN "help"
    ELSE IF Truthy(a.postprocess_only)
        THEN IF ~isfile(f, a.postprocess_only) THEN "post_missing" ELSE "postprocess"
    ELSE IF ~Truthy(a.file) /\ ~Truthy(a.net) THEN "usage"
    ELSE IF a.update_ytdlp THEN "update"
    ELSE IF Truthy(a.net) THEN "net"
    ELSE IF ~isfile(f, a.file) THEN "file_missing"
    ELSE "file"

\* main's return code on the branches that end at once
EarlyExit == [help |-> 0, post_missing |-> 4, usage |-> 2, file_missing |-> 4]

\* skip_check without the existence check of the skip branch
skip_check_unchecked(f, vf, a) ==
    IF ~a.skip_whisper THEN [next |-> "whisper", rc |-> NoRc]
    ELSE [next |-> "translate", rc |-> NoRc]

\* main between the video settled and the first stage: with --skip-whisper
\* the existing subtitle is required (code 8); the result is the stage due
\* and the return code, if main returns here
skip_check(f, vf, a) ==
    LET video_dir == dirname(vf)
        video_name == splitext0(basename(vf))
        srt_en == join(video_dir, video_name \o <<DOT, "srt">>)
    IN  IF ~a.skip_whisper THEN [next |-> "whisper", rc |-> NoRc]
        ELSE IF ~isfile(f, srt_en) THEN [next |-> "done", rc |-> 8]
        ELSE [next |-> "translate", rc |-> NoRc]

AfterAcquire(f, vf, a) ==
    /\ video_file' = vf
    /\ Goto(skip_check(f, vf, a).rc, skip_check(f, vf, a).next)

\* main is invoked with arguments a and runs up to its first external tool
Start(a, F) ==
    /\ pc = "idle"
    /\ args' = a
    /\ fs0' = fs
    /\ calls' = <<>>
    /\ cfg' = get_config(environ)
    /\ UNCHANGED <<environ, runs, killed>>
    /\ LET d == Dispatch(a, fs)
       IN  IF d = "postprocess"
             THEN LET vf == a.postprocess_only
                      video_dir == dirname(vf)
                      video_name == splitext0(basename(vf))
                  IN  \E fl \in FaultsOf(F, ProgressHits(fs, video_dir, TARGET_LANG)) :
                        LET r == postprocess_subtitles(fs, video_dir, video_name, TARGET_LANG, fl)
                        IN  /\ fs' = r.fs
                            /\ ops' = r.ops
                            /\ ret' = r.ret
                            /\ fsPre' = fs
                            /\ posted' = TRUE
                            /\ faulted' = (fl # NoFault)
                            /\ flt' = fl
                            /\ video_file' = vf
                            /\ Return(0)
           ELSE /\ fs' = fs /\ fsPre' = fs
                /\ ret' = None /\ ops' = <<>> /\ posted' = FALSE /\ flt' = NoFault
                /\ IF d \in DOMAIN EarlyExit
                     THEN /\ Return(EarlyExit[d])
                          /\ video_file' = None
                          /\ faulted' = FALSE
                   ELSE IF d = "update"
                     THEN /\ pc' = "update" /\ rc' = NoRc
                          /\ video_file' = None
                          /\ faulted' = FALSE
                   ELSE IF d = "net"
                     THEN \* os.makedirs(DOWNLOAD_DIR, exist_ok=True) is outside every try
                          \E mkfail \in Flaky(F) :
                            /\ Goto(IF mkfail THEN Raised ELSE NoRc, "download")
                            /\ faulted' = mkfail
                            /\ video_file' = None
                   ELSE /\ faulted' = FALSE
                        /\ AfterAcquire(fs, a.file, a)

\* update_ytdlp: wget, chmod, yt-dlp --version, each with check=True; k is
\* the command that fails (0: none)
UpdateYtdlp ==
    /\ pc = "update"
    /\ \E k \in 0..3 :
         LET cmds == <<"wget", "chmod", "yt-dlp --version">>
             n == IF k = 0 THEN 3 ELSE k
         IN  /\ calls' = calls \o [i \in 1..n |-> Call(cmds[i], IF i = k THEN "exit" ELSE "ok", FALSE)]
             /\ Return(IF k = 0 THEN 0 ELSE 2)
    /\ UNCHANGED <<fs, environ, cfg, args, video_file, ret, ops, fs0, fsPre, posted, faulted, flt, runs, killed>>

\* extensions the downloader may settle on
Exts == {"mp4", "webm"}

\* what one downloader process leaves behind: for some of the extensions, a
\* file with a modification time of the downloader's choosing
Downloads == UNION {[E -> 0..MaxTime] : E \in SUBSET Exts}

\* the sort by modification time, oldest first
newest_first_unreversed(f, candidates) ==
    {c \in candidates : \A d \in candidates : f[Abs(c)].t <= f[Abs(d)].t}

\* candidates.sort(key=getmtime, reverse=True); candidates[0]: the paths the
\* sort may put first, those no other candidate is newer than
newest_first(f, candidates) ==
    {c \in candidates : \A d \in candidates : f[Abs(d)].t <= f[Abs(c)].t}

\* download_video followed by main up to the next external tool.
\* present: the downloader binary exists and is executable; ls1, ls2: the
\* first / second os.listdir raises; rmf: stale names whose os.remove raises;
\* out, w: how the downloader exits and what it writes
Download(F) ==
    /\ pc = "download"
    /\ LET output_dir == DOWNLOAD_DIR
           output_name == YT_DLP_OUTPUT_NAME
           stale == {n \in listdir(fs, output_dir) : startswith(n, output_name \o <<DOT>>)}
       IN
       \E present \in BOOLEAN, ls1 \in Flaky(F), rmf \in (IF F THEN SUBSET stale ELSE {{}}),
          out \in {"ok", "exit", "error"}, w \in Downloads, ls2 \in Flaky(F) :
         IF ~present
           THEN /\ ~ls1 /\ rmf = {} /\ out = "ok" /\ DOMAIN w = {} /\ ~ls2
                /\ Return(3)
                /\ UNCHANGED <<fs, calls, ops, faulted, video_file>>
         ELSE IF ls1
           THEN /\ rmf = {} /\ out = "ok" /\ DOMAIN w = {} /\ ~ls2
                /\ Return(3)
                /\ faulted' = TRUE
                /\ UNCHANGED <<fs, calls, ops, video_file>>
         ELSE
           LET f1 == [x \in DOMAIN fs \ {Abs(join(output_dir, n)) : n \in stale \ rmf} |-> fs[x]]
               written == IF out = "error" THEN {} ELSE DOMAIN w
               target(e) == join(output_dir, output_name \o <<DOT, e>>)
               f2 == [x \in DOMAIN f1 \cup {Abs(target(e)) : e \in written} |->
                        IF \E e \in written : x = Abs(target(e))
                        THEN File("video", w[CHOOSE e \in written : x = Abs(target(e))])
                        ELSE f1[x]]
               dir_list == IF ls2 THEN {} ELSE listdir(f2, output_dir)
               candidates == {join(output_dir, n) : n \in {m \in dir_list : startswith(m, output_name \o <<DOT>>)}}
           IN  /\ out = "error" => DOMAIN w = {}
               /\ out # "ok" => ~ls2
               /\ fs' = f2
               /\ calls' = Append(calls, Call("yt-dlp", out, written # {}))
               /\ ops' = IF stale \ rmf = {} THEN ops ELSE Append(ops, <<"cleanup", stale \ rmf>>)
               /\ faulted' = (rmf # {} \/ ls2)
               /\ IF out # "ok" \/ candidates = {}
                    THEN Return(3) /\ UNCHANGED video_file
                    ELSE \E downloaded \in newest_first(f2, candidates) : AfterAcquire(f2, downloaded, args)
    /\ UNCHANGED <<environ, cfg, args, ret, fs0, fsPre, posted, flt, runs, killed>>

\* whisper_result with the transcriber run as check=False: a non-zero exit
\* goes unnoticed
whisper_result_unchecked(out, f, srt_en) ==
    IF out = "error" THEN 6
    ELSE IF ~isfile(f, srt_en) THEN 7
    ELSE NoRc

\* main's return code after ensure_whisper: 5 for a non-zero exit
\* (CalledProcessError), 6 for any other exception, 7 for a missing subtitle
whisper_result(out, f, srt_en) ==
    IF out = "exit" THEN 5
    ELSE IF out = "error" THEN 6
    ELSE IF ~isfile(f, srt_en) THEN 7
    ELSE NoRc

\* ensure_whisper and the check of its output in main
Whisper ==
    /\ pc = "whisper"
    /\ LET video_dir == dirname(video_file)
           video_name == splitext0(basename(video_file))
           srt_en == join(video_dir, video_name \o <<DOT, "srt">>)
       IN  \E out \in {"ok", "exit", "error"}, wrote \in BOOLEAN :
             LET f1 == IF wrote THEN write(fs, srt_en, "src", MaxTime) ELSE fs
             IN  /\ out = "error" => ~wrote
                 /\ fs' = f1
                 /\ calls' = Append(calls, Call("whisper", out, wrote))
                 /\ Goto(whisper_result(out, f1, srt_en), "translate")
    /\ UNCHANGED <<environ, cfg, args, video_file, ret, ops, fs0, fsPre, posted, faulted, flt, runs, killed>>

\* main's return code after translate_subtitles: 9 for any exception (the
\* handler lists video_dir, and a raising os.listdir leaves main), 10 for a
\* missing output
translate_result(out, f, srt_translated, video_dir, lsE) ==
    IF out # "ok" THEN (IF listdir_raises(video_dir) \/ lsE THEN Raised ELSE 9)
    ELSE IF ~isfile(f, srt_translated) THEN 10
    ELSE NoRc

\* translate_subtitles, the check of its output, and the rest of main.
\* out, wrote, np: how the translator exits, whether it writes its output,
\* how many progress checkpoints it leaves; lsE: the os.listdir in the error
\* handler raises; fl: the outcomes of post-processing's operations
Translate(F) ==
    /\ pc = "translate"
    /\ LET video_dir == dirname(video_file)
           video_name == splitext0(basename(video_file))
           srt_en == join(video_dir, video_name \o <<DOT, "srt">>)
           srt_translated == join(video_dir, video_name \o <<"_">> \o TARGET_LANG \o <<DOT, "srt">>)
       IN  \E out \in {"ok", "exit", "error"}, wrote \in BOOLEAN, np \in 0..MaxProgress :
             LET f1 == IF wrote THEN write(fs, srt_translated, "tr", MaxTime) ELSE fs
                 prog == {join(video_dir, ProgressName(basename(srt_en), TARGET_LANG, k)) : k \in 1..np}
                 f2 == [x \in DOMAIN f1 \cup {Abs(q) : q \in prog} |->
                          IF x \in {Abs(q) : q \in prog} THEN File("csv", MaxTime) ELSE f1[x]]
             IN  /\ out = "error" => (~wrote /\ np = 0)
                 /\ calls' = Append(calls, Call("translator", out, wrote))
                 /\ \E lsE \in Flaky(F) :
                      LET r0 == translate_result(out, f2, srt_translated, video_dir, lsE)
                      IN
                      /\ (out = "ok" \/ listdir_raises(video_dir)) => ~lsE
                      /\ IF r0 # NoRc
                           THEN /\ fs' = f2
                                /\ Return(r0)
                                /\ faulted' = (faulted \/ lsE)
                                /\ UNCHANGED <<ret, ops, fsPre, posted, flt>>
                           ELSE \E fl \in FaultsOf(F, ProgressHits(f2, video_dir, TARGET_LANG)) :
                                  LET r == main_postprocess(f2, video_dir, video_name, TARGET_LANG, fl)
                                  IN  /\ fs' = r.fs
                                      /\ ops' = ops \o r.ops
                                      /\ ret' = r.ret
                                      /\ fsPre' = f2
                                      /\ posted' = TRUE
                                      /\ faulted' = (faulted \/ fl # NoFault)
                                      /\ flt' = fl
                                      /\ Return(0)
    /\ UNCHANGED <<environ, cfg, args, video_file, fs0, runs, killed>>

\* exit status of a process ended by SIGKILL
Killed == 137

\* A signal kills the controller after transcription: while the translator
\* runs (it has left np progress checkpoints and no output), or, the
\* translator having succeeded, inside post-processing after k of its steps.
Kill ==
    /\ pc = "translate"
    /\ ~killed
    /\ LET video_dir == dirname(video_file)
           video_name == splitext0(basename(video_file))
           srt_en == join(video_dir, video_name \o <<DOT, "srt">>)
           srt_translated == join(video_dir, video_name \o <<"_">> \o TARGET_LANG \o <<DOT, "srt">>)
       IN  \E during \in {"translator", "post"}, np \in 0..MaxProgress, k \in 0..3 :
             LET f1 == IF during = "post" THEN write(fs, srt_translated, "tr", MaxTime) ELSE fs
                 prog == {join(video_dir, ProgressName(basename(srt_en), TARGET_LANG, i)) : i \in 1..np}
                 f2 == [x \in DOMAIN f1 \cup {Abs(q) : q \in prog} |->
                          IF x \in {Abs(q) : q \in prog} THEN File("csv", MaxTime) ELSE f1[x]]
             IN  IF during = "translator"
                   THEN /\ k = 0
                        /\ fs' = f2
                        /\ calls' = Append(calls, Call("translator", "killed", FALSE))
                        /\ UNCHANGED <<ops, fsPre, posted>>
                   ELSE \E kept \in SUBSET ProgressHits(f2, video_dir, TARGET_LANG) :
                          LET r == main_postprocess_upto(f2, video_dir, video_name, TARGET_LANG, k, kept)
                          IN  /\ k < 3 => kept = {}
                              /\ k = 3 => kept # {}
                              /\ fs' = r.fs
                              /\ ops' = ops \o r.ops
                              /\ calls' = Append(calls, Call("translator", "ok", TRUE))
                              /\ fsPre' = f2
                              /\ posted' = TRUE
    /\ killed' = TRUE
    /\ pc' = "done"
    /\ rc' = Killed
    /\ UNCHANGED <<environ, cfg, args, video_file, ret, fs0, faulted, flt, runs>>

\* the process has exited; the command is entered again
Exit ==
    /\ pc = "done"
    /\ runs < MaxRuns
    /\ runs' = runs + 1
    /\ pc' = "idle"
    /\ rc' = NoRc
    /\ UNCHANGED <<fs, environ, cfg, args, video_file, ret, calls, ops, fs0, fsPre, posted, faulted, flt, killed>>

\* One run of main from an arbitrary directory content.  Every filesystem
\* operation succeeds, except where the code itself makes it fail.
Next ==
    \/ \E a \in ArgSet : Start(a, FALSE)
    \/ UpdateYtdlp
    \/ Download(FALSE)
    \/ Whisper
    \/ Translate(FALSE)

Spec == Init /\ [][Next]_vars

\* Successive runs on the same local video: the command lines that name
\* movie.mp4, over a directory that starts with any of the movie's files
LocalArgs == {a \in ArgSet : ~a.no_argv /\ ~Truthy(a.net) /\ ~a.update_ytdlp
                             /\ (Truthy(a.file) \/ Truthy(a.postprocess_only))}

InitRerun == Init /\ \A x \in DOMAIN fs : dirname(x) = CWD

NextRerun ==
    \/ \E a \in LocalArgs : Start(a, FALSE)
    \/ Whisper
    \/ Translate(FALSE)
    \/ Exit

SpecRerun == InitRerun /\ [][NextRerun]_vars

\* Successive runs on the same local video, the first of which may be
\* killed after transcription
NextKill ==
    \/ \E a \in LocalArgs : Start(a, FALSE)
    \/ Whisper
    \/ Translate(FALSE)
    \/ Kill
    \/ Exit

SpecKill == InitRerun /\ [][NextKill]_vars

\* One run on the local video in which any filesystem operation of
\* post-processing may fail.  The directory holds the video and files that
\* are none of post-processing's business: a subtitle of another base name
\* and a progress file of another language.
Bystanders ==
    [x \in {VIDEO_ABS,
            CWD \o <<SEP, "other", DOT, "srt">>,
            CWD \o <<SEP>> \o ProgressName(<<"movie", DOT, "srt">>, <<"de">>, 1)}
     |-> IF x = VIDEO_ABS THEN File("video", MaxTime) ELSE File("other", MaxTime)]

InitPost ==
    /\ fs \in {[x \in S \cup DOMAIN Bystanders |->
                  IF x \in DOMAIN Bystanders THEN Bystanders[x] ELSE InitialFiles[x]] :
               S \in SUBSET {x \in DOMAIN InitialFiles : dirname(x) = CWD}}
    /\ environ \in Environs
    /\ cfg = [k \in ConfigKeys |-> Unset]
    /\ pc = "idle"
    /\ args = NoArgv
    /\ video_file = None
    /\ rc = NoRc
    /\ ret = None
    /\ calls = <<>>
    /\ ops = <<>>
    /\ fs0 = fs
    /\ fsPre = fs
    /\ posted = FALSE
    /\ faulted = FALSE
    /\ flt = NoFault
    /\ runs = 1
    /\ killed = FALSE

NextPost ==
    \/ \E a \in LocalArgs : Start(a, TRUE)
    \/ Whisper
    \/ Translate(TRUE)

SpecPost == InitPost /\ [][NextPost]_vars

\* One run in network mode up to the end of download_video, in which the
\* listings and deletions of download_video may fail.  The download
\* directory starts with any set of files left by earlier downloads.
NetArgs == {a \in ArgSet : ~a.no_argv /\ Truthy(a.net) /\ ~a.update_ytdlp}

StaleFiles ==
    {[x \in {DOWNLOAD_DIR \o <<SEP, "ytDownloadedFile", DOT, e>> : e \in DOMAIN w} |->
        File("stale", w[x[Len(x)]])] : w \in Downloads}

InitNet ==
    /\ fs \in StaleFiles
    /\ environ \in Environs
    /\ cfg = [k \in ConfigKeys |-> Unset]
    /\ pc = "idle"
    /\ args = NoArgv
    /\ video_file = None
    /\ rc = NoRc
    /\ ret = None
    /\ calls = <<>>
    /\ ops = <<>>
    /\ fs0 = fs
    /\ fsPre = fs
    /\ posted = FALSE
    /\ faulted = FALSE
    /\ flt = NoFault
    /\ runs = 1
    /\ killed = FALSE

NextNet ==
    \/ \E a \in NetArgs : Start(a, TRUE)
    \/ Download(TRUE)

SpecNet == InitNet /\ [][NextNet]_vars

\* The configuration main resolves, over every combination of set and unset
\* configuration variables; TRANSLATOR_PATH also takes values with a leading
\* "~" and with a reference to HOME, and HOME is set or unset
ConfigEnvirons ==
    {[k \in ConfigKeys \cup {"HOME"} |->
        IF k = "HOME" THEN h
        ELSE IF k = "TRANSLATOR_PATH" THEN t
        ELSE IF k \in S THEN <<"x">> ELSE Unset] :
        h \in {Unset, <<SEP, "home">>},
        t \in {Unset, <<SEP, "opt", SEP, "t">>, <<TILDE, SEP, "t">>, <<HOME_REF, SEP, "t">>},
        S \in SUBSET (ConfigKeys \ {"TRANSLATOR_PATH"})}

InitConfig ==
    /\ fs = Restrict(InitialFiles, {})
    /\ environ \in ConfigEnvirons
    /\ cfg = [k \in ConfigKeys |-> Unset]
    /\ pc = "idle"
    /\ args = NoArgv
    /\ video_file = None
    /\ rc = NoRc
    /\ ret = None
    /\ calls = <<>>
    /\ ops = <<>>
    /\ fs0 = fs
    /\ fsPre = fs
    /\ posted = FALSE
    /\ faulted = FALSE
    /\ flt = NoFault
    /\ runs = 1
    /\ killed = FALSE

NextConfig == \E a \in {NoArgv, Args(None, None, None, FALSE, FALSE)} : Start(a, FALSE)

SpecConfig == InitConfig /\ [][NextConfig]_vars

TypeOK ==
    /\ pc \in {"idle", "update", "download", "whisper", "translate", "done"}
    /\ rc \in {NoRc, Raised, Killed, 0, 2, 3, 4, 5, 6, 7, 8, 9, 10}
    /\ runs \in 1..MaxRuns
    /\ args \in ArgSet
    /\ \A x \in DOMAIN fs : fs[x].t \in 0..MaxTime
    /\ (pc = "done") = (rc # NoRc)

\* ------------------------------------------------- vocabulary of the claims
Holds(f, p, c) == p \in DOMAIN f /\ f[p].c = c

\* the directory that holds the video, and the subtitle names of base name v
DirOf(vf) == dirname(Abs(vf))
InDir(d, n) == d \o <<SEP>> \o n
SrtOf(vf) == InDir(DirOf(vf), splitext0(basename(vf)) \o <<DOT, "srt">>)
SrtEnOf(vf) == InDir(DirOf(vf), splitext0(basename(vf)) \o <<"_", "en", DOT, "srt">>)
SrtLangOf(vf, L) == InDir(DirOf(vf), splitext0(basename(vf)) \o <<"_">> \o L \o <<DOT, "srt">>)

\* the files of directory d whose names end with .progress_{L}.csv
ProgressIn(f, d, L) == {x \in DOMAIN f : dirname(x) = d /\ endswith(x, progress_suffix(L))}

PipelineTools == {"yt-dlp", "whisper", "translator"}
Tools(cs) == {cs[i].tool : i \in 1..Len(cs)}

\* ---------------------------------------------------------------------- C1
\* C1: a run `--file movie.mp4` (bare path, TARGET_LANG unset) in which the
\* transcriber deposits movie.srt and the translator exits 0 and deposits
\* movie_pl.srt with any number of progress files returns 0 and ends with
\* movie_en.srt = transcript, movie.srt = translation and no *.progress_pl.csv
\* left in the video's directory.
C1_ScenarioA ==
    (/\ pc = "done"
     /\ args = Args(VIDEO_BARE, None, None, FALSE, FALSE)
     /\ environ.TARGET_LANG = Unset
     /\ calls = <<Call("whisper", "ok", TRUE), Call("translator", "ok", TRUE)>>)
    => (/\ rc = 0
        /\ Holds(fs, InDir(CWD, <<"movie", "_", "en", DOT, "srt">>), "src")
        /\ Holds(fs, InDir(CWD, <<"movie", DOT, "srt">>), "tr")
        /\ ProgressIn(fs, CWD, <<"pl">>) = {})

\* ---------------------------------------------------------------------- C2
\* C2: postprocess_subtitles invoked on the state a reconciliation leaves
\* ({base}.srt = translation, {base}_en.srt = transcript, no {base}_{lang}.srt)
\* leaves both files in place with unchanged content and returns the pair
\* ({base}_en.srt, {base}.srt).
C2_IdempotentNoOp ==
    (/\ pc = "done"
     /\ Dispatch(args, fs0) = "postprocess"
     /\ Holds(fs0, SrtOf(video_file), "tr")
     /\ Holds(fs0, SrtEnOf(video_file), "src")
     /\ SrtLangOf(video_file, TARGET_LANG) \notin DOMAIN fs0)
    => (/\ Holds(fs, SrtOf(video_file), "tr")
        /\ Holds(fs, SrtEnOf(video_file), "src")
        /\ ret = <<join(dirname(video_file), basename(SrtEnOf(video_file))),
                   join(dirname(video_file), basename(SrtOf(video_file)))>>)

\* ---------------------------------------------------------------------- C3
\* C3: for every target language L and base name V, post-processing started
\* from {V.srt = transcript, V_L.srt = staged translation} ends with
\* V_en.srt = transcript, V.srt = translation, and V_L.srt not a second copy
\* of the translation.
C3_ArchiveAndPromote ==
    (/\ pc = "done"
     /\ posted
     /\ Holds(fsPre, SrtOf(video_file), "src")
     /\ Holds(fsPre, SrtLangOf(video_file, TARGET_LANG), "tr"))
    => (/\ Holds(fs, SrtEnOf(video_file), "src")
        /\ Holds(fs, SrtOf(video_file), "tr")
        /\ ~Holds(fs, SrtLangOf(video_file, TARGET_LANG), "tr"))

\* ---------------------------------------------------------------------- C4
\* C4: once post-processing has completed (standalone or at the end of a
\* full run) no file ending with .progress_{lang}.csv remains in the video's
\* directory, however many there were and however the video path was given.
C4_NoProgressLeft ==
    (pc = "done" /\ posted) => ProgressIn(fs, DirOf(video_file), TARGET_LANG) = {}

\* ---------------------------------------------------------------------- C5
\* C5: `--skip-whisper --file <video>` with <video> present and {base}.srt
\* absent returns 8, invokes no tool and leaves the filesystem as it was.
C5_Case ==
    /\ pc # "idle"
    /\ args.skip_whisper /\ Truthy(args.file) /\ ~Truthy(args.postprocess_only)
    /\ ~args.update_ytdlp
    /\ isfile(fs0, args.file)
    /\ SrtOf(args.file) \notin DOMAIN fs0

C6_Reconciled(f, vf, L) ==
    LET a == IF SrtOf(vf) \in DOMAIN f THEN os_replace(f, SrtOf(vf), SrtEnOf(vf)) ELSE f
        b == IF SrtLangOf(vf, L) \in DOMAIN a THEN os_replace(a, SrtLangOf(vf, L), SrtOf(vf)) ELSE a
    IN  Restrict(b, DOMAIN b \ ProgressIn(b, DirOf(vf), L))

\* C6: a run with --postprocess-only <video> invokes no external tool; when
\* <video> is a file it performs exactly the reconciliation (archive,
\* promote, purge of progress files) and returns 0, otherwise it returns 4
\* and leaves the filesystem unchanged.
C6_PostprocessOnly ==
    (pc # "idle" /\ Truthy(args.postprocess_only))
    => (/\ pc = "done"
        /\ calls = <<>>
        /\ IF isfile(fs0, args.postprocess_only)
             THEN rc = 0 /\ fs = C6_Reconciled(fs0, args.postprocess_only, TARGET_LANG)
             ELSE rc = 4 /\ fs = fs0)

\* ---------------------------------------------------------------------- C7
Called(t) == t \in Tools(calls)
OutOf(t) == calls[CHOOSE i \in 1..Len(calls) : calls[i].tool = t].out

C7_FullRun ==
    /\ ~args.no_argv /\ ~Truthy(args.postprocess_only) /\ ~args.update_ytdlp
    /\ Truthy(args.file) \/ Truthy(args.net)

\* the documented code of the first stage that failed, read off the run's
\* history
C7_Documented ==
    IF Truthy(args.net) /\ (~Called("yt-dlp") \/ OutOf("yt-dlp") # "ok" \/ video_file = None) THEN 3
    ELSE IF ~Truthy(args.net) /\ ~isfile(fs0, args.file) THEN 4
    ELSE IF Called("whisper") /\ OutOf("whisper") = "exit" THEN 5
    ELSE IF Called("whisper") /\ OutOf("whisper") = "error" THEN 6
    ELSE IF ~args.skip_whisper /\ ~Called("translator") /\ SrtOf(video_file) \notin DOMAIN fs THEN 7
    ELSE IF args.skip_whisper /\ ~Called("translator") /\ SrtOf(video_file) \notin DOMAIN fs THEN 8
    ELSE IF Called("translator") /\ OutOf("translator") # "ok" THEN 9
    ELSE IF Called("translator") /\ ~posted /\ SrtLangOf(video_file, TARGET_LANG) \notin DOMAIN fs THEN 10
    ELSE 0

\* C7: in a full run (--file or --net) main returns the documented code of
\* the first stage that fails (3 download, 4 missing file, 5/6 transcriber,
\* 7 no transcript, 8 skip-mode without subtitle, 9 translator, 10 no
\* translation) and 0 only when none failed.
C7_ExitCodes ==
    (pc = "done" /\ C7_FullRun) => rc = C7_Documented

\* ---------------------------------------------------------------------- C8
C8_Case ==
    /\ pc # "idle"
    /\ ~Truthy(args.file) /\ ~Truthy(args.net) /\ ~Truthy(args.postprocess_only)
    /\ ~args.update_ytdlp

\* C8 as stated: every invocation without a mode flag, the one without any
\* command-line argument included, returns 2 and invokes no external tool.
C8_Original ==
    C8_Case => (pc = "done" /\ rc = 2 /\ calls = <<>>)

\* C8 as amended: an invocation without a mode flag invokes no external tool
\* and returns 2, except the invocation with no command-line argument at all
\* (argv None, sys.argv holding the program name only), which prints the help
\* and returns 0.
C8_NoModeFlag ==
    C8_Case => (pc = "done" /\ calls = <<>> /\ rc = IF args.no_argv THEN 0 ELSE 2)

C8_Witness == C8_Case /\ args.skip_whisper /\ ~args.no_argv /\ rc = 2 /\ calls = <<>>

\* ---------------------------------------------------------------------- C9
Rank(t) == IF t = "yt-dlp" THEN 1 ELSE IF t = "whisper" THEN 2 ELSE 3

Pipeline == SelectSeq(calls, LAMBDA c : c.tool \in PipelineTools)

\* the renames, copies and deletions of post-processing among the run's
\* operations
PostOps == SelectSeq(ops, LAMBDA o : o[1] # "cleanup")

\* C9: the tools run in the order downloader (only with --net), transcriber
\* (unless --skip-whisper), translator, each at most once; a stage or
\* post-processing starts only after every earlier stage succeeded and left
\* its output; after a failure nothing more is invoked, renamed or deleted.
C9_StageOrder ==
    /\ \A i, j \in 1..Len(Pipeline) : i < j => Rank(Pipeline[i].tool) < Rank(Pipeline[j].tool)
    /\ Called("yt-dlp") => Truthy(args.net)
    /\ Called("whisper") => ~args.skip_whisper
    /\ Called("whisper") /\ Truthy(args.net) => Called("yt-dlp")
    /\ Called("translator") /\ ~args.skip_whisper => Called("whisper")
    /\ \A i \in 1..(Len(Pipeline) - 1) : Pipeline[i].out = "ok"
    /\ Called("whisper") => isfile(fs, video_file)
    /\ Called("translator") => SrtOf(video_file) \in DOMAIN (IF posted THEN fsPre ELSE fs)
    /\ (posted /\ ~Truthy(args.postprocess_only)) =>
          /\ Called("translator") /\ OutOf("translator") = "ok"
          /\ SrtLangOf(video_file, TARGET_LANG) \in DOMAIN fsPre
    /\ (\E i \in 1..Len(Pipeline) : Pipeline[i].out # "ok") =>
          (pc = "done" /\ Pipeline[Len(Pipeline)].out # "ok" /\ rc # 0)
    /\ rc \notin {0, NoRc} => (~posted /\ PostOps = <<>>)
    /\ pc # "done" => (~posted /\ PostOps = <<>>)

C9_Witness ==
    /\ pc = "done" /\ rc = 0 /\ posted
    /\ Len(Pipeline) = 3
    /\ Pipeline[1].tool = "yt-dlp" /\ Pipeline[2].tool = "whisper" /\ Pipeline[3].tool = "translator"

\* --------------------------------------------------------------------- C10
UpdateTools == {"wget", "chmod", "yt-dlp --version"}

\* C10: with --update-ytdlp (with or without --file/--net) main runs the
\* downloader update and exits without acquisition, transcription,
\* translation or post-processing, returning 0 if the update succeeded and 2
\* if it failed.
C10_UpdateAndExit ==
    (pc = "done" /\ args.update_ytdlp)
    => (/\ calls # <<>>
        /\ Tools(calls) \subseteq UpdateTools
        /\ ~posted /\ ops = <<>> /\ fs = fs0
        /\ rc = IF \A i \in 1..Len(calls) : calls[i].out = "ok" THEN 0 ELSE 2)

\* --------------------------------------------------------------------- C11
\* the hardcoded defaults, as written in get_config
C11_Default ==
    [WHISPER_MODEL |-> <<"large">>,
     WHISPER_LANGUAGE |-> <<"en">>,
     OPENAI_ENDPOINT |-> <<"http://localhost:20000/v1">>,
     OPENAI_API_KEY |-> <<"lm-studio">>,
     OPENAI_MODEL |-> <<"qwen3-30b-a3b-instruct-2507">>,
     TRANSLATOR_PATH |-> <<HOME_REF, SEP, "tools", SEP, "translateMovie", SEP,
                           "chatgpt-subtitle-translator">>,
     SOURCE_LANG |-> <<"en">>,
     TARGET_LANG |-> <<"pl">>,
     YT_DLP_PATH |-> <<"/usr/local/bin/yt-dlp">>,
     YT_DLP_OUTPUT_NAME |-> <<"ytDownloadedFile">>,
     TRANSLATION_BATCH_SIZES |-> <<"[5,10]">>]

\* the text get_config starts from for key k: the variable, or the default
C11_Raw(k) == IF environ[k] = Unset THEN C11_Default[k] ELSE environ[k]

\* C11 as stated: each of the eleven keys has its hardcoded default when its
\* variable is absent and the variable's value verbatim when present, and
\* depends on no other variable.
C11_Original ==
    pc # "idle" => \A k \in ConfigKeys : cfg[k] = C11_Raw(k)

\* C11 as amended: the ten keys other than TRANSLATOR_PATH are the default or
\* the variable verbatim and depend on no other variable; TRANSLATOR_PATH is
\* the default or the variable after expansion of variable references and of
\* a leading "~": it is verbatim only when neither occurs, and otherwise
\* depends on HOME.
C11_ConfigResolved ==
    pc # "idle" =>
        /\ \A k \in ConfigKeys \ {"TRANSLATOR_PATH"} : cfg[k] = C11_Raw(k)
        /\ LET raw == C11_Raw("TRANSLATOR_PATH")
               val == cfg["TRANSLATOR_PATH"]
               refs(s) == {i \in 1..Len(s) : s[i] = HOME_REF}
           IN  /\ (raw[1] # TILDE /\ (refs(raw) = {} \/ environ["HOME"] = Unset)) => val = raw
               /\ val[1] # TILDE
               /\ environ["HOME"] # Unset => refs(val) = {}
               /\ (raw[1] = TILDE \/ (raw[1] = HOME_REF /\ environ["HOME"] # Unset)) =>
                     val = (IF environ["HOME"] # Unset THEN environ["HOME"] ELSE PwdHome) \o Tail(raw)

C11_Witness ==
    /\ pc # "idle"
    /\ environ["WHISPER_MODEL"] = <<"x">> /\ cfg["WHISPER_MODEL"] = <<"x">>
    /\ environ["SOURCE_LANG"] = Unset /\ cfg["SOURCE_LANG"] = <<"en">>
    /\ environ["TRANSLATOR_PATH"] = <<TILDE, SEP, "t">>
    /\ cfg["TRANSLATOR_PATH"] = <<SEP, "home", SEP, "t">>

\* --------------------------------------------------------------------- C12
\* the path pair post-processing reports for video path vf, as the code
\* builds it: ({base}_en.srt, {base}.srt) joined to the video's directory
C12_Pair(vf) ==
    <<join(dirname(vf), splitext0(basename(vf)) \o <<"_", "en", DOT, "srt">>),
      join(dirname(vf), splitext0(basename(vf)) \o <<DOT, "srt">>)>>

\* the translator of the run exited 0 and left {base}_{lang}.srt behind
C12_Translated ==
    /\ C7_FullRun /\ Called("translator") /\ OutOf("translator") = "ok"
    /\ SrtLangOf(video_file, TARGET_LANG) \in DOMAIN (IF posted THEN fsPre ELSE fs)

\* C12: once the translator has exited 0 and {base}_{lang}.srt exists, main
\* returns 0 and reports the pair ({base}_en.srt, {base}.srt), whichever of
\* the renames, copy fallbacks, the listing and the deletions of
\* post-processing fail; postprocess_subtitles (the post-process-only mode)
\* likewise returns that pair and main returns 0.
C12_NeverFailsRun ==
    pc = "done" =>
        /\ C12_Translated => (rc = 0 /\ posted /\ ret = C12_Pair(video_file))
        /\ (~args.no_argv /\ Truthy(args.postprocess_only)) =>
              (rc = 0 /\ posted /\ ret = C12_Pair(args.postprocess_only))

\* a full run whose two moves both failed outright and whose listing failed
C12_Witness ==
    /\ pc = "done" /\ C12_Translated /\ rc = 0
    /\ flt.m1 = "copyfail" /\ flt.m2 = "copyfail" /\ flt.ls
    /\ SrtOf(video_file) \in DOMAIN fsPre
    /\ SrtLangOf(video_file, TARGET_LANG) \in DOMAIN fs

\* --------------------------------------------------------------------- C13
\* the downloader is the only tool that has run, and it exited 0: the
\* filesystem is as download_video left it
C13_Downloaded ==
    /\ Len(calls) = 1 /\ calls[1].tool = "yt-dlp" /\ calls[1].out = "ok"

\* the files of the download directory named {base_name}.*
C13_Candidates ==
    {x \in DOMAIN fs : /\ dirname(x) = DOWNLOAD_DIR
                       /\ startswith(basename(x), YT_DLP_OUTPUT_NAME \o <<DOT>>)}

\* C13: after the downloader exits successfully download_video returns the
\* path of a file of the target directory named {base_name}.* whose
\* modification time is at least that of every other such file; when there
\* is no such file it fails with the not-found error (main returns 3).
C13_NewestCandidate ==
    C13_Downloaded =>
        IF C13_Candidates = {}
          THEN rc = 3 /\ video_file = None
          ELSE /\ video_file # None
               /\ Abs(video_file) \in C13_Candidates
               /\ \A y \in C13_Candidates : fs[y].t <= fs[Abs(video_file)].t

\* ytDownloadedFile.mp4 older, ytDownloadedFile.webm newer: the .webm is returned
C13_Witness ==
    /\ C13_Downloaded
    /\ LET mp4 == DOWNLOAD_DIR \o <<SEP, "ytDownloadedFile", DOT, "mp4">>
           webm == DOWNLOAD_DIR \o <<SEP, "ytDownloadedFile", DOT, "webm">>
       IN  /\ mp4 \in DOMAIN fs /\ webm \in DOMAIN fs
           /\ fs[mp4].t < fs[webm].t
           /\ video_file = webm

\* --------------------------------------------------------------------- C14
\* a full run with --skip-whisper has ended, after an earlier run on the
\* video was killed past transcription
C14_Rerun ==
    /\ killed /\ pc = "done" /\ rc # Killed
    /\ C7_FullRun /\ args.skip_whisper

\* every translator the run invoked exited 0 and wrote its output
C14_TranslatorSucceeds ==
    \A i \in 1..Len(calls) :
        calls[i].tool = "translator" => (calls[i].out = "ok" /\ calls[i].wrote)

\* C14: after the controller was killed at some point past transcription
\* (during translation or during post-processing), a rerun on the same video
\* with --skip-whisper does not invoke the transcriber and, the translator
\* succeeding, returns 0 with {base}_en.srt = transcript, {base}.srt =
\* translation and no progress file left.
C14_ResumableAfterKill ==
    C14_Rerun =>
        /\ ~Called("whisper")
        /\ C14_TranslatorSucceeds =>
              /\ rc = 0
              /\ Holds(fs, SrtEnOf(args.file), "src")
              /\ Holds(fs, SrtOf(args.file), "tr")
              /\ ProgressIn(fs, DirOf(args.file), TARGET_LANG) = {}

\* --------------------------------------------------------------------- C15
\* a run in network mode that has entered download_video and is past it
C15_PastDownload ==
    /\ ~args.no_argv /\ Truthy(args.net) /\ ~args.update_ytdlp
    /\ pc \notin {"idle", "download"}
    /\ ~(rc = Raised /\ calls = <<>>)

\* C15: in network mode no failure of the stale-file cleanup (a deletion
\* that fails, or a failure to list the target directory) keeps the
\* downloader from being invoked; download_video fails only because the
\* downloader is missing (nothing was attempted), because it exited non-zero
\* or because no candidate was found.
C15_CleanupBestEffort ==
    C15_PastDownload =>
        /\ faulted => Called("yt-dlp")
        /\ (rc = 3 /\ ~Called("yt-dlp")) => (~faulted /\ ops = <<>> /\ fs = fs0)

\* --------------------------------------------------------------------- C18
\* C18: the path download_video returns names a file the downloader wrote
\* during this invocation, never a {base_name}.* file that was in the target
\* directory before the call, whichever stale files there were, whichever
\* of their deletions failed, and whatever modification times the downloader
\* assigned.
C18_FreshFile ==
    (C15_PastDownload /\ C13_Downloaded /\ video_file # None) =>
        /\ Holds(fs, Abs(video_file), "video")
        /\ ~Holds(fs, Abs(video_file), "stale")

\* --------------------------------------------------------------------- C16
\* post-processing has run to its end in the current run
C16_Posted == pc = "done" /\ rc = 0 /\ posted

\* C16: the block inlined at the end of main and postprocess_subtitles are
\* equivalent: from the directory contents post-processing started on, for
\* the run's video directory, base name and target language and the outcomes
\* its filesystem operations had, both perform the operations the run
\* performed, leave the directory the run left and yield the pair the run
\* reported.
C16_SameAsStandalone ==
    C16_Posted =>
        LET video_dir == dirname(video_file)
            video_name == splitext0(basename(video_file))
            inlined == main_postprocess(fsPre, video_dir, video_name, TARGET_LANG, flt)
            standalone == postprocess_subtitles(fsPre, video_dir, video_name, TARGET_LANG, flt)
        IN  /\ inlined = standalone
            /\ standalone = [fs |-> fs, ops |-> ops, ret |-> ret]

\* a full run whose archive fell back to a copy that could not remove its
\* source, whose promotion succeeded and which purged a progress file
C16_Witness ==
    /\ C16_Posted /\ C7_FullRun
    /\ flt.m1 = "rmfail" /\ flt.m2 = "ok" /\ ~flt.ls
    /\ Len(ops) = 3
    /\ ProgressIn(fsPre, DirOf(video_file), TARGET_LANG) # {}
    /\ ProgressIn(fs, DirOf(video_file), TARGET_LANG) = {}

\* --------------------------------------------------------------------- C17
\* post-processing started with {base}.srt = transcript and
\* {base}_{lang}.srt = translation, and has run to its end
C17_Case ==
    /\ C16_Posted
    /\ Holds(fsPre, SrtOf(video_file), "src")
    /\ Holds(fsPre, SrtLangOf(video_file, TARGET_LANG), "tr")

\* C17: post-processing never loses the source transcript: started with
\* {base}.srt = transcript and {base}_{lang}.srt = translation, whichever
\* renames, copies and deletions of steps 1 and 2 fail, afterwards
\* {base}_en.srt or {base}.srt holds the transcript.
C17_TranscriptKept ==
    C17_Case =>
        \/ Holds(fs, SrtEnOf(video_file), "src")
        \/ Holds(fs, SrtOf(video_file), "src")

\* --------------------------------------------------------------------- C19
\* the files post-processing for video path vf and language L may touch:
\* {base}.srt, {base}_{L}.srt, {base}_en.srt and the files of the video's
\* directory named *.progress_{L}.csv
C19_Own(f, vf, L) ==
    {SrtOf(vf), SrtLangOf(vf, L), SrtEnOf(vf)} \cup ProgressIn(f, DirOf(vf), L)

\* C19: post-processing for base name V and language L changes only V.srt,
\* V_L.srt, V_en.srt and the files of the video directory named
\* *.progress_L.csv: every other file (the video, subtitles of other base
\* names, progress files of other languages) is there afterwards with its
\* content unchanged, and no other file appears.
C19_Frame ==
    C16_Posted =>
        /\ \A x \in DOMAIN fsPre \ C19_Own(fsPre, video_file, TARGET_LANG) :
              x \in DOMAIN fs /\ fs[x] = fsPre[x]
        /\ DOMAIN fs \subseteq DOMAIN fsPre \cup C19_Own(fsPre, video_file, TARGET_LANG)

\* post-processing archived, promoted and purged next to the video, another
\* video's subtitle and another language's progress file
C19_Witness ==
    /\ C16_Posted
    /\ Len(ops) = 3
    /\ ProgressIn(fsPre, DirOf(video_file), TARGET_LANG) # {}
    /\ ProgressIn(fs, DirOf(video_file), TARGET_LANG) = {}
    /\ Holds(fs, VIDEO_ABS, "video")
    /\ Holds(fs, CWD \o <<SEP, "other", DOT, "srt">>, "other")
    /\ ProgressIn(fs, CWD, <<"de">>) # {}

====
